---- MODULE Spec2Model ----
(***************************************************************************)
(* Stetson: a reactive container over a svelte writable store.             *)
(*                                                                         *)
(* The model follows index.js (src/sample.ts lines 45-91): the closure     *)
(* variables value, valueProxy and dirty, the store s, the functions       *)
(* flush and invalidate, the value accessor handed to the builder and the  *)
(* wrapper put around every action.  The host is the JavaScript job        *)
(* model: user code runs to completion, promise reactions and the          *)
(* continuations of await are jobs of one FIFO microtask queue, and a new  *)
(* task starts only when that queue is empty.                              *)
(***************************************************************************)
EXTENDS Integers, Sequences, FiniteSets, TLC

\* ------------------------------------------------------------------ bounds
MaxCalls == 2   \* bound action calls in one run
MaxFuel  == 6   \* steps of user code in one run: calls, accesses of the value, awaits
MaxVal   == 3   \* largest number the counter reaches
MaxObj   == 2   \* objects ever allocated
SmallFuel == 3  \* steps of user code in a run that varies the builder

\* ------------------------------------------------------------------ values
\* A JavaScript value is a record [t, v]: t is its kind, v its number, its
\* object identity or its promise identity.
Undef      == [t |-> "undef", v |-> 0]
Null       == [t |-> "null", v |-> 0]
Num(n)     == [t |-> "num", v |-> n]
NaN        == [t |-> "nan", v |-> 0]
Str        == [t |-> "str", v |-> 0]
Obj(i)     == [t |-> "obj", v |-> i]
Proxy(i)   == [t |-> "proxy", v |-> i]
Promise(c) == [t |-> "promise", v |-> c]
Derived(c) == [t |-> "derived", v |-> c]
FinObj     == [t |-> "finobj", v |-> 0]
FinRes     == [t |-> "finres", v |-> 0]
Err(n)     == [t |-> "err", v |-> n]
TypeError  == Err(0)

\* value instanceof Object
IsObject(x) == x.t = "obj"

\* ToBoolean(x)
Truthy(x) ==
  CASE x.t \in {"undef", "null", "nan"} -> FALSE
    [] x.t = "num" -> x.v # 0
    [] OTHER -> TRUE

\* res && res.finally
HasFinally(x) == x.t \in {"promise", "derived", "finobj"}

Calls == 1 .. MaxCalls
NoFrame == 0
Detached == -1

VARIABLES
  value,       \* the closure variable value: the container's Value
  valueProxy,  \* the closure variable valueProxy: what the accessor getter returns
  captured,    \* the view a builder took by destructuring ({ value }) => ...
  boundActions, \* what the builder returned: its action names, in key order
  container,   \* the object actions() returns (res of line 80): key -> member
  builderCalls, \* invocations of the builder so far
  heap,        \* heap[i]: property count of object i
  nobj,        \* objects allocated so far
  dirty,       \* the Dirty Token: TRUE is pending (dirty = s), FALSE is clean
  sval,        \* the value the Underlying Store holds
  notifs,      \* calls of s.set, each notifying the subscribers
  queue,       \* the microtask queue, oldest job first
  phase,       \* "task": caller code of a task runs; "drain": microtasks run
  frame,       \* whose user code is running: a call, Detached or NoFrame
  ncalls,      \* bound action calls made so far
  call,        \* call[c]: state of the bound action call c
  prom,        \* prom[c]: the promise an asynchronous action c returned
  deriv,       \* deriv[c]: the promise res.finally(flush) made for call c
  ret,         \* what crossed the wrapper in the last step: arguments in, result out
  obs,         \* the settlement the last caller's continuation observed
  acc,         \* the property access user code made in the last step
  fuel,        \* steps of user code still allowed in this run
  hist         \* bookkeeping about the run, read only by the properties

coreVars == <<value, valueProxy, heap, nobj, dirty, sval, notifs, queue>>

\* What actions(builder) sets up once and no later code assigns.
construction == <<captured, boundActions, container, builderCalls>>

vars == <<value, valueProxy, construction, heap, nobj, dirty, sval, notifs, queue,
          phase, frame, ncalls, call, prom, deriv, ret, obs, acc, fuel, hist>>

\* The part of the state the container's own functions read and write.
Core == [value |-> value, valueProxy |-> valueProxy, heap |-> heap, nobj |-> nobj,
         dirty |-> dirty, sval |-> sval, notifs |-> notifs, queue |-> queue,
         hist |-> hist]

Commit(st) ==
  /\ value' = st.value
  /\ valueProxy' = st.valueProxy
  /\ heap' = st.heap
  /\ nobj' = st.nobj
  /\ dirty' = st.dirty
  /\ sval' = st.sval
  /\ notifs' = st.notifs
  /\ queue' = st.queue
  /\ hist' = st.hist

Job(k, c) == [k |-> k, c |-> c]

\* ------------------------------------------------------------ flush scheduler
\* invalidate that marks the token but never awaits: no checkpoint is queued.
invalidateNoSchedule(st, who) ==
  LET noted == [st EXCEPT !.hist.unflushed = @ \cup {who},
                          !.hist.sigs = IF @ = 0 THEN 1 ELSE 2]
  IN IF ~st.dirty
       THEN [noted EXCEPT !.dirty = TRUE, !.hist.opened = who, !.hist.sets = 0]
       ELSE noted

\* invalidate without its test: every signal awaits and flushes.
invalidateAlwaysSchedules(st, who) ==
  LET noted == [st EXCEPT !.hist.unflushed = @ \cup {who},
                          !.hist.sigs = IF @ = 0 THEN 1 ELSE 2,
                          !.queue = Append(@, Job("ckpt", NoFrame))]
  IN IF ~st.dirty
       THEN [noted EXCEPT !.dirty = TRUE, !.hist.opened = who, !.hist.sets = 0]
       ELSE noted

\* const invalidate = async () => !dirty && ((dirty = s), await s, flush());
\* Up to the await it runs synchronously; the await of the store object (not a
\* thenable) queues the rest as one microtask.  who raised the signal.
invalidate(st, who) ==
  LET noted == [st EXCEPT !.hist.unflushed = @ \cup {who},
                          !.hist.sigs = IF @ = 0 THEN 1 ELSE 2]
  IN IF ~st.dirty
       THEN [noted EXCEPT !.dirty = TRUE,
                          !.queue = Append(@, Job("ckpt", NoFrame)),
                          !.hist.opened = who,
                          !.hist.sets = 0]
       ELSE noted

\* A subscriber of the store reads a property of the value it is handed: a
\* Proxy runs its get trap, a raw object is read directly.
subscriber(st, payload) ==
  IF payload.t = "proxy" THEN invalidate(st, NoFrame) ELSE st

\* flush that hands the store the view: () => dirty && (dirty = s.set(valueProxy))
flushView(st) ==
  IF st.dirty
    THEN LET told == subscriber([st EXCEPT !.sval = st.valueProxy,
                                           !.notifs = st.notifs + 1],
                                st.valueProxy)
         IN [told EXCEPT !.dirty = FALSE,
                         !.hist.unflushed = {},
                         !.hist.sets = @ + 1]
    ELSE st

\* flush that forgets to clear the token: () => dirty && s.set(value)
flushKeepsDirty(st) ==
  IF st.dirty
    THEN [st EXCEPT !.sval = st.value,
                    !.notifs = st.notifs + 1,
                    !.hist.unflushed = {},
                    !.hist.sets = @ + 1]
    ELSE st

\* flush with its test inverted: () => !dirty && (dirty = s.set(value))
flushInverted(st) ==
  IF ~st.dirty
    THEN [st EXCEPT !.sval = st.value,
                    !.notifs = st.notifs + 1,
                    !.hist.unflushed = {},
                    !.hist.sets = @ + 1]
    ELSE st

\* flush that hands the store the value it already holds instead of value.
flushStale(st) ==
  IF st.dirty
    THEN [st EXCEPT !.notifs = st.notifs + 1,
                    !.dirty = FALSE,
                    !.hist.unflushed = {},
                    !.hist.sets = @ + 1]
    ELSE st

\* flush without its test: () => (dirty = s.set(value))
flushUnguarded(st) ==
  [st EXCEPT !.sval = st.value,
             !.notifs = st.notifs + 1,
             !.dirty = FALSE,
             !.hist.unflushed = {},
             !.hist.sets = @ + 1]

\* const flush = () => dirty && (dirty = s.set(value));
\* s.set replaces the stored value and calls every subscriber; it returns
\* undefined, which makes the token clean.
flush(st) ==
  IF st.dirty
    THEN LET told == subscriber([st EXCEPT !.sval = st.value,
                                           !.notifs = st.notifs + 1],
                                st.value)
         IN [told EXCEPT !.dirty = FALSE,
                         !.hist.unflushed = {},
                         !.hist.sets = @ + 1]
    ELSE st

\* Which caller of flush delivered the last notification.
Deliver(old, new, by) ==
  IF new.notifs # old.notifs THEN [new EXCEPT !.hist.by = by] ELSE new

\* ------------------------------------------------------------ change tracker
\* The result of a piece of container code run by user code: the state it
\* leaves, whether it threw, and the value (or the error) it produced.
Done(st, val)   == [st |-> st, thrown |-> FALSE, val |-> val]
Thrown(st, err) == [st |-> st, thrown |-> TRUE, val |-> err]

\* get value() { return valueProxy; }
getValue(st) == st.valueProxy

\* A setter that pushes every assignment to the store at once.
setValueEager(st, nextValue, who) ==
  LET s1 == invalidate(st, who)
      s2 == [s1 EXCEPT !.value = nextValue]
      s3 == IF ~IsObject(nextValue) THEN [s2 EXCEPT !.valueProxy = nextValue] ELSE s2
  IN flush(s3)

\* set value(nextValue) { invalidate(); value = nextValue;
\*                        !(value instanceof Object) && (valueProxy = value); }
setValue(st, nextValue, who) ==
  LET s1 == invalidate(st, who)
      s2 == [s1 EXCEPT !.value = nextValue]
  IN IF ~IsObject(nextValue) THEN [s2 EXCEPT !.valueProxy = nextValue] ELSE s2

\* get: (_, p) => { invalidate(); return value[p]; }
\* value is the closure variable, whatever the proxy's target was.
proxyGet(st, who) ==
  LET s1 == invalidate(st, who)
  IN CASE IsObject(s1.value) -> Done(s1, Num(s1.heap[s1.value.v]))
       [] s1.value.t \in {"null", "undef"} -> Thrown(s1, TypeError)
       [] OTHER -> Done(s1, Undef)

\* A set trap that writes to the proxy's target, the object the only proxy
\* was built over: set: (t, p, v) => { invalidate(); return (t[p] = v); }
proxySetTarget(st, v, who) ==
  LET s1 == invalidate(st, who)
  IN Done([s1 EXCEPT !.heap[1] = v.v], v)

\* set: (_, p, v) => { invalidate(); return (value[p] = v); }
\* index.js is a module, hence strict: assigning a property of a primitive throws.
proxySet(st, v, who) ==
  LET s1 == invalidate(st, who)
  IN IF IsObject(s1.value)
       THEN Done([s1 EXCEPT !.heap[s1.value.v] = v.v], v)
       ELSE Thrown(s1, TypeError)

\* view.count, where view is what the accessor getter (or a destructured
\* parameter) gave: a Proxy runs its get trap, a primitive is read directly.
PropRead(st, view, who) ==
  CASE view.t = "proxy" -> proxyGet(st, who)
    [] view.t \in {"null", "undef"} -> Thrown(st, TypeError)
    [] OTHER -> Done(st, Undef)

\* view.count = v.  Proxy [[Set]] takes the trap's result as a success flag: a
\* falsy result makes the assignment throw in strict code, after the write.
PropWrite(st, view, v, strict, who) ==
  CASE view.t = "proxy" ->
         LET t == proxySet(st, v, who)
         IN IF ~t.thrown /\ ~Truthy(t.val) /\ strict
              THEN Thrown(t.st, TypeError)
              ELSE IF t.thrown THEN t ELSE Done(t.st, v)
    [] view.t \in {"null", "undef"} -> Thrown(st, TypeError)
    [] OTHER -> IF strict THEN Thrown(st, TypeError) ELSE Done(st, v)

\* store.value++ : read through the getter, convert to a number, assign old + 1.
\* Converting a Proxy reads Symbol.toPrimitive, valueOf and toString through the
\* get trap and yields NaN.
Increment(st, who) ==
  LET old == getValue(st)
  IN CASE old.t = "num" -> Done(setValue(st, Num(old.v + 1), who), old)
       [] old.t = "null" -> Done(setValue(st, Num(1), who), Num(0))
       [] old.t = "proxy" ->
            LET g1 == proxyGet(st, who)
                g2 == proxyGet(g1.st, who)
                g3 == proxyGet(g2.st, who)
            IN Done(setValue(g3.st, NaN, who), NaN)
       [] OTHER -> Done(setValue(st, NaN, who), NaN)

\* store.value = { count: 0 } : a new object, then the setter.
AssignNewObject(st, who) ==
  LET i  == st.nobj + 1
      s1 == [st EXCEPT !.nobj = i, !.heap[i] = 0]
  IN Done(setValue(s1, Obj(i), who), Obj(i))

\* store.value = v for a primitive v.
AssignPrimitive(st, v, who) == Done(setValue(st, v, who), v)

\* ------------------------------------------------------------- action binder
\* The members of the returned object: the store's own subscribe function, or
\* the wrapper made for key k.
StoreSubscribe == [f |-> "s.subscribe", k |-> "subscribe"]
Wrapper(k)     == [f |-> "wrapper", k |-> k]

\* obj[k] = v on a plain object: adds the key or replaces its member.
define(obj, k, v) == [x \in DOMAIN obj \cup {k} |-> IF x = k THEN v ELSE obj[x]]

\* for (const k in boundActions) { res[k] = (...args) => {...}; }
RECURSIVE bindAll(_, _)
bindAll(obj, keys) ==
  IF keys = <<>> THEN obj
  ELSE bindAll(define(obj, Head(keys), Wrapper(Head(keys))), Tail(keys))

\* const res = { subscribe: s.subscribe }; for (...) ...; return res;
expose(keys) == bindAll([x \in {"subscribe"} |-> StoreSubscribe], keys)

\* A binder that asks the builder again for every key it binds.
buildPerKey(builder) == [boundActions |-> builder, calls |-> 1 + Len(builder)]

\* const boundActions = builder({ get value() ..., set value(nextValue) ... });
\* the one call of the builder; its result is kept.
build(builder) == [boundActions |-> builder, calls |-> 1]

\* (...args) => boundActions[k](...args) : the rest parameter collects the
\* caller's arguments and the spread hands the same list to the user function.
passArgs(args) == args

\* The wrapper of the other index.js (src/unnamed/part_001 lines 56-60):
\* return res;
wrapResultPlain(res, c) == res

\* return res && res.finally ? res.finally(flush) : res;
\* For a promise, finally makes a new promise; for any other object with a
\* finally member, the caller gets whatever that member returns.
wrapResult(res, c) ==
  IF Truthy(res) /\ HasFinally(res)
    THEN IF res.t = "finobj" THEN FinRes ELSE Derived(c)
    ELSE res

\* A wrapper without its flush() line.
forcedFlushMissing(st) == st

\* flush(); between the user function's return and the wrapper's own.
forcedFlush(st) == flush(st)

\* How the promise of p.then(onFulfilled) settles: with what onFulfilled returned.
thenSettlement(p, result) ==
  IF p.st = "fulfilled" THEN [st |-> "fulfilled", val |-> result]
  ELSE [st |-> p.st, val |-> p.val]

\* How the promise of p.finally(onFinally) settles once p has: as p did; what
\* onFinally returned (result) is dropped unless it is a rejection.
finallySettlement(p, result) == [st |-> p.st, val |-> p.val]

Pending        == [st |-> "pending", val |-> Undef, reacts |-> <<>>]
NoPromise      == [st |-> "none", val |-> Undef, reacts |-> <<>>]
Settled(p)     == p.st \in {"fulfilled", "rejected"}

\* p.then / p.finally registers a reaction; on a settled promise its job is
\* queued at once.  Returns the promise and the queue.
Register(p, q, k, c) ==
  IF Settled(p)
    THEN [p |-> p, q |-> Append(q, Job(k, c))]
    ELSE [p |-> [p EXCEPT !.reacts = Append(@, k)], q |-> q]

\* Settling a promise queues one job per registered reaction, in order.
SettleJobs(p, c) == [i \in 1 .. Len(p.reacts) |-> Job(p.reacts[i], c)]

\* How a segment of user code ends.
Await(ext)  == [k |-> IF ext THEN "awaitext" ELSE "await", val |-> Undef]
Return(r)   == [k |-> "return", val |-> r]
Throw(e)    == [k |-> "throw", val |-> e]

AfterBody(out) ==
  CASE out.k = "return" -> [st |-> "fulfilled", val |-> out.val, reacts |-> <<>>]
    [] out.k = "throw"  -> [st |-> "rejected", val |-> out.val, reacts |-> <<>>]
    [] OTHER            -> Pending

NextPc(out) ==
  CASE out.k = "await" -> "susp"
    [] out.k = "awaitext" -> "waitext"
    [] OTHER -> "done"

CloseSegment(h, c) ==
  [h EXCEPT !.groups[c] = IF h.sigs > 0 THEN @ + 1 ELSE @,
            !.sigs = 0]

\* What the caller of call c holds when the call is over: how the call ended,
\* the value or error it got, what the user function had produced, and the
\* signals its synchronous body had raised.
NoRet == [c |-> 0, k |-> "none", val |-> Undef, r |-> Undef, async |-> FALSE,
          sigs |-> 0, args |-> <<>>, got |-> <<>>]

Handed(c, k, val, r, st) ==
  [c |-> c, k |-> k, val |-> val, r |-> r, async |-> call[c].async,
   sigs |-> st.hist.sigs, args |-> <<>>, got |-> <<>>]

\* The synchronous portion of call c ends with out, st being the state the
\* user code left.  The rest of the wrapper runs:
\*   const res = boundActions[k](...args); flush(); return res && res.finally ? ...
\* A plain function that throws leaves the wrapper at its first line.
EndSync(st, c, out) ==
  IF out.k = "throw" /\ ~call[c].async
    THEN /\ Commit([st EXCEPT !.hist = CloseSegment(@, c)])
         /\ ret' = Handed(c, "throw", out.val, out.val, st)
         /\ call' = [call EXCEPT ![c].pc = "done"]
         /\ frame' = NoFrame
         /\ UNCHANGED <<prom, deriv>>
    ELSE LET res == IF call[c].async THEN Promise(c) ELSE out.val
             p0  == IF call[c].async THEN AfterBody(out) ELSE NoPromise
             s1  == IF out.k = "await"
                      THEN [st EXCEPT !.queue = Append(@, Job("resume", c))]
                      ELSE st
             s2  == Deliver(s1, forcedFlush(s1), "forced")
             rv  == wrapResult(res, c)
             fin == IF rv.t = "derived"
                      THEN Register(p0, s2.queue, "thenFinally", c)
                      ELSE [p |-> p0, q |-> s2.queue]
             \* the caller awaits whatever deferred result it was handed
             own == IF rv.t = "promise"
                      THEN Register(fin.p, fin.q, "cont", c)
                      ELSE fin
             d1  == IF rv.t = "derived"
                      THEN [Pending EXCEPT !.reacts = <<"cont">>]
                      ELSE NoPromise
         IN /\ Commit([s2 EXCEPT !.queue = own.q, !.hist = CloseSegment(@, c)])
            /\ prom' = [prom EXCEPT ![c] = own.p]
            /\ deriv' = [deriv EXCEPT ![c] = d1]
            /\ ret' = Handed(c, "value", rv, res, s2)
            /\ call' = [call EXCEPT ![c].pc = NextPc(out)]
            /\ frame' = NoFrame

\* A later segment of the asynchronous action c ends with out: it suspends
\* again, or the promise it returned settles and its reactions are queued.
EndAsync(st, c, out) ==
  LET p1 == IF out.k \in {"return", "throw"}
              THEN [prom[c] EXCEPT !.st = AfterBody(out).st, !.val = out.val]
              ELSE prom[c]
      q1 == CASE out.k = "await" -> Append(st.queue, Job("resume", c))
              [] out.k = "awaitext" -> st.queue
              [] OTHER -> st.queue \o SettleJobs(prom[c], c)
  IN /\ Commit([st EXCEPT !.queue = q1, !.hist = CloseSegment(@, c)])
     /\ prom' = [prom EXCEPT ![c] = p1]
     /\ call' = [call EXCEPT ![c].pc = NextPc(out)]
     /\ frame' = NoFrame
     /\ ret' = NoRet
     /\ UNCHANGED deriv

\* The callback or handle running outside any bound action returns (or throws
\* to the host).
EndDetached(st) ==
  /\ Commit([st EXCEPT !.hist.sigs = 0])
  /\ frame' = NoFrame
  /\ ret' = NoRet
  /\ UNCHANGED <<call, prom, deriv>>

EndSegment(st, who, out) ==
  IF who = Detached THEN EndDetached(st)
  ELSE IF call[who].seg = 1 THEN EndSync(st, who, out)
  ELSE EndAsync(st, who, out)

\* ----------------------------------------------------------------- the run
InitialValues == {Num(0), Null, Obj(1)}
Arguments     == {<<>>, <<1, 2>>}
Returnable    == {Undef, Str, Obj(1), FinObj}
Resolvable    == {Str}
Errors        == {Err(1)}
Written       == {Num(0), Num(1)}
Assigned      == {Num(0), Null}

NoObs == [c |-> 0, st |-> "none", val |-> Undef]

NoAcc == [op |-> "none", via |-> "none", proxy |-> FALSE, obj |-> FALSE,
          signalled |-> FALSE, thrown |-> FALSE, val |-> Undef, arg |-> Undef,
          live |-> Undef, inCall |-> FALSE]

NoCall == [pc |-> "unused", async |-> FALSE, seg |-> 0]

Builders       == {<<>>, <<"next">>, <<"next", "reset">>, <<"next", "subscribe">>}
DefaultBuilder == <<"next">>

\* stetson(value).actions(builder): the store, the token, the proxy of an
\* object Value, one call of the builder, which may keep the view, and the
\* object handed back.  f is the user code the run may still execute.
actions(v0, builder, f) ==
    /\ value = v0
    /\ valueProxy = IF IsObject(v0) THEN Proxy(v0.v) ELSE v0
    /\ captured = valueProxy
    /\ boundActions = build(builder).boundActions
    /\ builderCalls = build(builder).calls
    /\ container = expose(boundActions)
    /\ heap = [i \in 1 .. MaxObj |-> 0]
    /\ nobj = IF IsObject(v0) THEN 1 ELSE 0
    /\ dirty = FALSE
    /\ sval = v0
    /\ notifs = 0
    /\ queue = <<>>
    /\ phase = "task"
    /\ frame = NoFrame
    /\ ncalls = 0
    /\ call = [c \in Calls |-> NoCall]
    /\ prom = [c \in Calls |-> NoPromise]
    /\ deriv = [c \in Calls |-> NoPromise]
    /\ ret = NoRet
    /\ obs = NoObs
    /\ acc = NoAcc
    /\ fuel = f
    /\ hist = [unflushed |-> {}, sigs |-> 0, opened |-> NoFrame, sets |-> 0,
               by |-> "none",
               n0 |-> [c \in Calls |-> 0],
               groups |-> [c \in Calls |-> 0],
               quiet |-> [c \in Calls |-> FALSE]]

Init == \E v0 \in InitialValues : actions(v0, DefaultBuilder, MaxFuel)

\* Runs that vary what the builder returns, with less user code.
SmallInit ==
  \E v0 \in InitialValues, b \in Builders : actions(v0, b, SmallFuel)

InTask  == phase = "task" /\ frame = NoFrame
Running == frame # NoFrame

\* Another frame starts to run: the calls in flight are no longer alone.
Disturb(h, who) == [h EXCEPT !.quiet = [c \in Calls |-> @[c] /\ c = who],
                             !.sigs = 0]

\* ---- caller code of a task
\* store[k](...args) : the wrapper calls the user function.
CallAction(isAsync, args) ==
  /\ InTask
  /\ \E k \in DOMAIN container : container[k].f = "wrapper"
  /\ ncalls < MaxCalls
  /\ fuel > 0
  /\ fuel' = fuel - 1
  /\ LET c == ncalls + 1
     IN /\ ncalls' = c
        /\ call' = [call EXCEPT ![c] = [pc |-> "run", async |-> isAsync, seg |-> 1]]
        /\ frame' = c
        /\ hist' = [Disturb(hist, c) EXCEPT !.n0[c] = notifs, !.quiet[c] = ~dirty]
        /\ ret' = [NoRet EXCEPT !.c = c, !.k = "enter", !.async = isAsync,
                                !.args = args, !.got = passArgs(args)]
  /\ obs' = NoObs /\ acc' = NoAcc
  /\ UNCHANGED <<coreVars, construction, phase, prom, deriv>>

\* A handle or callback an action gave away is run outside any bound action.
CallDetached ==
  /\ InTask
  /\ fuel > 1
  /\ fuel' = fuel - 1
  /\ frame' = Detached
  /\ hist' = Disturb(hist, Detached)
  /\ ret' = NoRet /\ obs' = NoObs /\ acc' = NoAcc
  /\ UNCHANGED <<coreVars, construction, phase, ncalls, call, prom, deriv>>

\* The operation an action awaits settles: its continuation is queued.
ExternalSettle(c) ==
  /\ InTask
  /\ call[c].pc = "waitext"
  /\ call' = [call EXCEPT ![c].pc = "susp"]
  /\ queue' = Append(queue, Job("resume", c))
  /\ ret' = NoRet /\ obs' = NoObs /\ acc' = NoAcc
  /\ UNCHANGED <<value, valueProxy, heap, nobj, dirty, sval, notifs, construction,
                 phase, frame, ncalls, prom, deriv, fuel, hist>>

\* The task's code is over: the microtask queue is drained.
EndTask ==
  /\ InTask
  /\ phase' = "drain"
  /\ ret' = NoRet /\ obs' = NoObs /\ acc' = NoAcc
  /\ UNCHANGED <<coreVars, construction, frame, ncalls, call, prom, deriv, fuel, hist>>

\* With the queue empty the host starts the next task.  Nothing refers to a
\* call that is over any more: its record is dropped, and the notifications
\* are counted from the start of the oldest call still in flight.
Over(c) == call[c].pc \in {"done", "over"}

Base ==
  LET live == {hist.n0[c] : c \in {d \in Calls : call[d].pc = "waitext"}}
  IN IF live = {} THEN notifs ELSE CHOOSE n \in live : \A m \in live : n <= m

StartTask ==
  /\ phase = "drain" /\ frame = NoFrame /\ queue = <<>>
  /\ \/ fuel > 0
     \/ \E c \in Calls : call[c].pc = "waitext"
  /\ phase' = "task"
  /\ call' = [c \in Calls |-> IF Over(c) THEN [NoCall EXCEPT !.pc = "over"] ELSE call[c]]
  /\ prom' = [c \in Calls |-> IF Over(c) THEN NoPromise ELSE prom[c]]
  /\ deriv' = [c \in Calls |-> IF Over(c) THEN NoPromise ELSE deriv[c]]
  /\ notifs' = notifs - Base
  /\ hist' = [hist EXCEPT
                !.n0 = [c \in Calls |-> IF call[c].pc = "waitext" THEN @[c] - Base ELSE 0],
                !.groups = [c \in Calls |-> IF Over(c) THEN 0 ELSE @[c]],
                !.quiet = [c \in Calls |-> IF Over(c) THEN FALSE ELSE @[c]]]
  /\ ret' = NoRet /\ obs' = NoObs /\ acc' = NoAcc
  /\ UNCHANGED <<value, valueProxy, heap, nobj, dirty, sval, queue, construction,
                 frame, ncalls, fuel>>

\* ---- user code
View(via) == IF via = "accessor" THEN getValue(Core) ELSE captured

\* What the properties read of a property access: through which view it went,
\* whether the container's Value was an object, whether a signal was raised
\* (probe is the same access with the signal marks cleared first), how it
\* ended, and the property of the Value afterwards.
Unmarked == [Core EXCEPT !.hist.sigs = 0]

Access(op, via, v, r, probe) ==
  [op |-> op, via |-> via, proxy |-> View(via).t = "proxy", obj |-> IsObject(value),
   signalled |-> probe.st.hist.sigs > 0, thrown |-> r.thrown, val |-> r.val,
   arg |-> v,
   live |-> IF IsObject(r.st.value) THEN Num(r.st.heap[r.st.value.v]) ELSE Undef,
   inCall |-> frame \in Calls]

\* What a step of user code did to the container: it goes on, or it threw.
Apply(r, a) ==
  /\ acc' = a
  /\ fuel > 0
  /\ fuel' = fuel - 1
  /\ IF r.thrown
       THEN EndSegment(r.st, frame, Throw(r.val))
       ELSE /\ Commit(r.st)
            /\ ret' = NoRet
            /\ UNCHANGED <<frame, call, prom, deriv>>
  /\ obs' = NoObs
  /\ UNCHANGED <<construction, phase, ncalls>>

UserIncrement ==
  /\ Running
  /\ getValue(Core).t = "num" => getValue(Core).v < MaxVal
  /\ Apply(Increment(Core, frame), NoAcc)

UserAssignPrimitive(v) ==
  /\ Running
  /\ Apply(AssignPrimitive(Core, v, frame), NoAcc)

UserAssignNewObject ==
  /\ Running
  /\ nobj < MaxObj
  /\ Apply(AssignNewObject(Core, frame), NoAcc)

UserRead(via) ==
  /\ Running
  /\ LET r == PropRead(Core, View(via), frame)
     IN Apply(r, Access("read", via, Undef, r, PropRead(Unmarked, View(via), frame)))

UserWrite(via, v, strict) ==
  /\ Running
  /\ LET r == PropWrite(Core, View(via), v, strict, frame)
     IN Apply(r, Access("write", via, v, r,
                        PropWrite(Unmarked, View(via), v, strict, frame)))

UserAwait(ext) ==
  /\ frame \in Calls
  /\ call[frame].async
  /\ fuel > 0
  /\ fuel' = fuel - 1
  /\ EndSegment(Core, frame, Await(ext))
  /\ obs' = NoObs /\ acc' = NoAcc
  /\ UNCHANGED <<construction, phase, ncalls>>

UserReturn(r) ==
  /\ Running
  /\ frame = Detached => r = Undef
  /\ frame \in Calls /\ call[frame].async => r \in Resolvable
  /\ EndSegment(Core, frame, Return(r))
  /\ obs' = NoObs /\ acc' = NoAcc
  /\ UNCHANGED <<construction, phase, ncalls, fuel>>

UserThrow(e) ==
  /\ frame \in Calls
  /\ EndSegment(Core, frame, Throw(e))
  /\ obs' = NoObs /\ acc' = NoAcc
  /\ UNCHANGED <<construction, phase, ncalls, fuel>>

\* ---- microtasks
Draining(k) ==
  /\ phase = "drain" /\ frame = NoFrame
  /\ queue # <<>>
  /\ Head(queue).k = k

Rest == [Core EXCEPT !.queue = Tail(queue)]

\* The continuation of invalidate after its await: flush().
RunCheckpoint ==
  /\ Draining("ckpt")
  /\ Commit(Deliver(Rest, flush(Rest), "ckpt"))
  /\ ret' = NoRet /\ obs' = NoObs /\ acc' = NoAcc
  /\ UNCHANGED <<construction, phase, frame, ncalls, call, prom, deriv, fuel>>

\* The continuation of an await in the action's body.
RunResume ==
  /\ Draining("resume")
  /\ LET c == Head(queue).c
     IN /\ call' = [call EXCEPT ![c].pc = "run", ![c].seg = 2]
        /\ frame' = c
        /\ hist' = Disturb(hist, c)
  /\ queue' = Tail(queue)
  /\ ret' = NoRet /\ obs' = NoObs /\ acc' = NoAcc
  /\ UNCHANGED <<value, valueProxy, heap, nobj, dirty, sval, notifs, construction,
                 phase, ncalls, prom, deriv, fuel>>

\* The reaction of res.finally(flush): onFinally() is flush(); then
\* Promise.resolve(result).then(() => value) and the adoption of that promise
\* take further jobs before the derived promise settles.
RunThenFinally ==
  /\ Draining("thenFinally")
  /\ LET s1 == Deliver(Rest, flush(Rest), "finally")
     IN Commit([s1 EXCEPT !.queue = Append(@, Job("hop", Head(queue).c))])
  /\ ret' = NoRet /\ obs' = NoObs /\ acc' = NoAcc
  /\ UNCHANGED <<construction, phase, frame, ncalls, call, prom, deriv, fuel>>

\* The value thunk and the NewPromiseResolveThenableJob, queued together.
RunHop ==
  /\ Draining("hop")
  /\ queue' = Append(Tail(queue), Job("settle", Head(queue).c))
  /\ ret' = NoRet /\ obs' = NoObs /\ acc' = NoAcc
  /\ UNCHANGED <<value, valueProxy, heap, nobj, dirty, sval, notifs, construction,
                 phase, frame, ncalls, call, prom, deriv, fuel, hist>>

\* The derived promise settles as the action's promise did.
RunSettle ==
  /\ Draining("settle")
  /\ LET c == Head(queue).c
         d == finallySettlement(prom[c], Undef)
     IN /\ deriv' = [deriv EXCEPT ![c].st = d.st, ![c].val = d.val]
        /\ queue' = Tail(queue) \o SettleJobs(deriv[c], c)
  /\ ret' = NoRet /\ obs' = NoObs /\ acc' = NoAcc
  /\ UNCHANGED <<value, valueProxy, heap, nobj, dirty, sval, notifs, construction,
                 phase, frame, ncalls, call, prom, fuel, hist>>

\* The caller's continuation on the result it was handed.
RunCallerCont ==
  /\ Draining("cont")
  /\ LET c == Head(queue).c
         p == IF deriv[c].st # "none" THEN deriv[c] ELSE prom[c]
     IN obs' = [c |-> c, st |-> p.st, val |-> p.val]
  /\ queue' = Tail(queue)
  /\ ret' = NoRet /\ acc' = NoAcc
  /\ UNCHANGED <<value, valueProxy, heap, nobj, dirty, sval, notifs, construction,
                 phase, frame, ncalls, call, prom, deriv, fuel, hist>>

Next ==
  \/ \E a \in BOOLEAN, args \in Arguments : CallAction(a, args)
  \/ CallDetached
  \/ \E c \in Calls : ExternalSettle(c)
  \/ EndTask
  \/ StartTask
  \/ UserIncrement
  \/ \E v \in Assigned : UserAssignPrimitive(v)
  \/ UserAssignNewObject
  \/ \E via \in {"accessor", "captured"} : UserRead(via)
  \/ \E via \in {"accessor", "captured"}, v \in Written, strict \in BOOLEAN :
       UserWrite(via, v, strict)
  \/ \E ext \in BOOLEAN : UserAwait(ext)
  \/ \E r \in Returnable : UserReturn(r)
  \/ \E e \in Errors : UserThrow(e)
  \/ RunCheckpoint
  \/ RunResume
  \/ RunThenFinally
  \/ RunHop
  \/ RunSettle
  \/ RunCallerCont

Spec == Init /\ [][Next]_vars

SurfaceSpec == SmallInit /\ [][Next]_vars

\* The host runs a task's code to its end and then drains the microtask
\* queue, job after job; user code of a frame runs to completion.
Fairness ==
  /\ WF_vars(EndTask)
  /\ WF_vars(\E r \in Returnable : UserReturn(r))
  /\ WF_vars(RunCheckpoint)
  /\ WF_vars(RunResume)
  /\ WF_vars(RunThenFinally)
  /\ WF_vars(RunHop)
  /\ WF_vars(RunSettle)
  /\ WF_vars(RunCallerCont)

FairSpec == SmallInit /\ [][Next]_vars /\ Fairness

\* ------------------------------------------------------------- properties
Drained == phase = "drain" /\ frame = NoFrame /\ queue = <<>>

CheckpointQueued == \E i \in 1 .. Len(queue) : queue[i].k = "ckpt"

\* Notifications since call c started.
Delta(c) == notifs - hist.n0[c]

C3_AsyncGroups ==
  (obs.c # 0 /\ hist.quiet[obs.c]) =>
     /\ Delta(obs.c) = hist.groups[obs.c]
     /\ sval = value

\* 0, then increment / await / increment / await / increment: three
\* notifications, final value 3.
C3_Witness ==
  /\ obs.c # 0 /\ hist.quiet[obs.c]
  /\ hist.groups[obs.c] = 3 /\ Delta(obs.c) = 3
  /\ value = Num(3) /\ sval = Num(3) /\ captured = Num(0)

\* C4: when the caller's continuation on the result of a bound action runs, no
\* signal that action raised is still unflushed.
C4_FlushedAtSettlement ==
  obs.c # 0 => obs.c \notin hist.unflushed

\* An action that raised signals in two segments, with other code interleaved.
C4_Witness ==
  /\ obs.c # 0 /\ hist.groups[obs.c] >= 2 /\ ~hist.quiet[obs.c]
  /\ obs.c \notin hist.unflushed

\* C5 as amended: the signals of a window a detached callback opened are
\* notified exactly once; until then the token is pending and a checkpoint is
\* queued; the notification comes from that checkpoint or from a forced flush
\* that runs before it.
C5_DetachedDelivered ==
  hist.opened = Detached =>
     /\ hist.sets <= 1
     /\ hist.sets = 0 => dirty /\ CheckpointQueued
     /\ hist.sets = 1 => ~dirty /\ hist.by \in {"ckpt", "forced", "finally"}

\* C5 as stated: the notification of such a window is delivered by the
\* checkpoint and not before.
C5_DetachedOnlyAtCheckpoint ==
  hist.opened = Detached =>
     /\ hist.sets <= 1
     /\ hist.sets = 0 => dirty /\ CheckpointQueued
     /\ hist.sets = 1 => ~dirty /\ hist.by = "ckpt"

\* Two or more detached signals, delivered by the checkpoint.
C5_Witness ==
  /\ hist.opened = Detached /\ hist.sets = 1 /\ hist.by = "ckpt"
  /\ sval = value /\ ~dirty /\ ncalls = 0 /\ fuel = MaxFuel - 2

\* C6: when the user function throws synchronously after raising a signal, the
\* caller gets that error and the partial update has been flushed when the
\* call exits.
C6_SyncThrowFlushed ==
  (ret.k = "throw" /\ ret.sigs > 0) =>
     ret.val = ret.r /\ ~dirty /\ sval = value

\* C7: the caller of an asynchronous action observes the settlement of the
\* action's own promise, rejection and error or fulfilment and value, and by
\* then the signals of the action are flushed.
C7_AsyncSettlement ==
  obs.c # 0 =>
     /\ obs.st = prom[obs.c].st
     /\ obs.val = prom[obs.c].val
     /\ obs.st \in {"fulfilled", "rejected"}
     /\ obs.c \notin hist.unflushed

\* A rejection with the user's error, after a signal.
C7_Witness ==
  /\ obs.c # 0 /\ obs.st = "rejected" /\ obs.val = Err(1)
  /\ hist.groups[obs.c] >= 1

\* C8 as amended: the user function receives the caller's arguments; a result
\* without a finally member is handed back itself; a promise is replaced by
\* the promise of r.finally(flush), which settles as r does.
C8_PassThrough ==
  /\ ret.k = "enter" => ret.got = ret.args
  /\ (ret.k = "value" /\ ret.r.t \notin {"promise", "finobj"}) => ret.val = ret.r
  /\ (ret.k = "value" /\ ret.r.t = "promise") =>
        /\ ret.val = Derived(ret.c)
        /\ deriv[ret.c].st = "pending"
  /\ obs.c # 0 => obs.st = prom[obs.c].st /\ obs.val = prom[obs.c].val

\* C8 as stated: the value handed back is r itself, whatever r is.
C8_ReturnsItself ==
  /\ ret.k = "enter" => ret.got = ret.args
  /\ ret.k = "value" => ret.val = ret.r

\* A deferred result comes back as another promise.
C8_Witness ==
  ret.k = "value" /\ ret.r = Promise(ret.c) /\ ret.val = Derived(ret.c)

\* C9: when the Value is an object, whatever it was before, an action's write
\* store.value.p = v is performed on the Value and raises a signal.
C9_ReassignThenMutate ==
  (acc.op = "write" /\ acc.via = "accessor" /\ acc.obj /\ acc.inCall) =>
     acc.signalled /\ acc.live = acc.arg

\* C10: every read and write on the Tracked View of an object Value raises a
\* signal; a read returns the live property; a write stores the value and
\* returns it.
C10_OverInclusive ==
  (acc.proxy /\ acc.obj) =>
     /\ acc.signalled
     /\ acc.op = "read" => ~acc.thrown /\ acc.val = acc.live
     /\ acc.op = "write" => acc.live = acc.arg /\ ~acc.thrown /\ acc.val = acc.arg

\* C11: while a segment of an exposed action runs, helpers of the builder
\* closure included, no notification is delivered and the store keeps the
\* value it held; during the synchronous body the count of notifications is
\* the one at the call, and a signal raised by the running code leaves the
\* token pending until the code is over.
C11_NoFlushInsideAction ==
  /\ [](frame \in Calls /\ call[frame].seg = 1 => notifs = hist.n0[frame])
  /\ [](frame \in Calls /\ hist.sigs > 0 => dirty)
  /\ [][(frame \in Calls /\ frame' = frame) => (notifs' = notifs /\ sval' = sval)]_vars

\* Inside a synchronous body after two increments of 0: the store still holds
\* 0 and nothing was notified.
C11_Witness ==
  /\ frame \in Calls /\ call[frame].seg = 1 /\ hist.sigs = 2
  /\ value = Num(2) /\ sval = Num(0) /\ dirty /\ notifs = hist.n0[frame]

ActionNames == {boundActions[i] : i \in 1 .. Len(boundActions)}

\* C12: the returned object has exactly the key subscribe and one key per
\* action name of the builder's result; subscribe is the store's subscribe
\* and every other action name holds its wrapper.
C12_PublicSurface ==
  /\ DOMAIN container = {"subscribe"} \cup ActionNames
  /\ container["subscribe"] = StoreSubscribe
  /\ \A k \in ActionNames \ {"subscribe"} : container[k] = Wrapper(k)

\* C13: the builder has been invoked exactly once, whatever calls, flushes
\* and checkpoints followed, and no step replaces what it returned or the
\* view its closure holds.
C13_BuilderRunsOnce ==
  /\ [](builderCalls = 1)
  /\ [][boundActions' = boundActions /\ captured' = captured
         /\ container' = container]_vars

\* Every call the run allows was made and the microtasks are drained, the last
\* notification coming from a checkpoint.
C13_Witness ==
  /\ builderCalls = 1 /\ ncalls = MaxCalls /\ Drained
  /\ hist.by = "ckpt" /\ hist.sets = 1

Checkpoints == {i \in 1 .. Len(queue) : queue[i].k = "ckpt"}

\* C14 as stated: at most one scheduled checkpoint is queued and not yet run.
C14_SingleCheckpoint == Cardinality(Checkpoints) <= 1

\* C14 as amended: a checkpoint is scheduled only when the token goes from
\* clean to pending, one per such transition: no step taken while the token is
\* pending adds a checkpoint, and no step adds more than one.  The checkpoint
\* of a window a forced flush delivered stays queued, so several can be
\* outstanding.
C14_OneCheckpointPerWindow ==
  [][/\ dirty => Cardinality(Checkpoints') <= Cardinality(Checkpoints)
     /\ Cardinality(Checkpoints') <= Cardinality(Checkpoints) + 1]_vars

\* Two windows were opened and force-flushed in one task: both checkpoints
\* are still queued.
C14_Witness ==
  /\ Cardinality(Checkpoints) = 2 /\ ~dirty /\ frame = NoFrame /\ phase = "task"

\* C15: every step in which a flush notifies, forced or from a checkpoint,
\* leaves in the store the container's Value as it is at that instant, and the
\* token clean.
C15_LatestValueOnFlush ==
  [][notifs' > notifs => (sval' = value' /\ ~dirty')]_vars

\* The Value was an object, was signalled several times in one call and
\* replaced by a second object; the forced flush stored the second object.
C15_Witness ==
  /\ ret.k = "value" /\ ret.sigs = 2 /\ hist.by = "forced" /\ hist.sets = 1
  /\ value = Obj(2) /\ sval = Obj(2)

C17_NoLostMutation == dirty ~> (~dirty /\ sval = value)

\* A window opened inside a bound action and left pending was delivered by
\* its checkpoint.
C17_Witness ==
  /\ hist.opened \in Calls /\ hist.sets = 1 /\ hist.by = "ckpt"
  /\ ~dirty /\ sval = value

Settled0(c) == call[c].pc \in {"unused", "done", "over"}

\* C18: once every bound action has settled and the microtask queue is
\* drained, the token is clean and the store holds the current Value, however
\* the segments of the asynchronous actions were interleaved.
C18_InterleavedAsync ==
  (Drained /\ \A c \in Calls : Settled0(c)) => (~dirty /\ sval = value)

\* Two asynchronous actions, both resumed after an await and both having
\* raised signals, have settled.
C18_Witness ==
  /\ Drained /\ ~dirty /\ sval = value
  /\ \A c \in Calls :
       /\ call[c].pc = "done" /\ call[c].async /\ call[c].seg = 2
       /\ hist.groups[c] >= 1

\* C19: the accessor getter returns the current Value when it is primitive,
\* and when it is an object a Tracked View built over that very object.
C19_ViewRebuilt ==
  IF IsObject(value)
    THEN getValue(Core).t = "proxy" /\ getValue(Core).v = value.v
    ELSE getValue(Core) = value

\* C20: whenever the token is pending, a scheduled checkpoint is queued and
\* has not run yet.
C20_PendingImpliesScheduled == dirty => CheckpointQueued

\* The token is pending again after a forced flush in the same synchronous
\* stretch: the old checkpoint and the new one are both queued.
C20_Witness ==
  /\ dirty /\ Cardinality(Checkpoints) = 2 /\ phase = "task"

\* The builder kept a Tracked View and the Value is by now another object.
CapturedAfterReplacement ==
  captured.t = "proxy" /\ IsObject(value) /\ value.v # captured.v

\* C21: a read or write through a Tracked View the builder kept, made after
\* the Value was replaced by another object, raises a signal; the read gives
\* the property of the current Value, the write stores into the current Value
\* and leaves the discarded object as it was.
C21_CapturedViewLive ==
  /\ []((acc.via = "captured" /\ CapturedAfterReplacement) =>
          /\ acc.signalled
          /\ acc.op = "read" => (~acc.thrown /\ acc.val = acc.live)
          /\ acc.op = "write" => acc.live = acc.arg)
  /\ [][(acc'.via = "captured" /\ CapturedAfterReplacement) =>
          heap'[captured.v] = heap[captured.v]]_vars

\* A write of 1 through the kept view landed in the second object; the first
\* object still has 0.
C21_Witness ==
  /\ acc.op = "write" /\ acc.via = "captured" /\ CapturedAfterReplacement
  /\ acc.signalled /\ acc.arg = Num(1) /\ acc.live = Num(1)
  /\ heap[value.v] = 1 /\ heap[captured.v] = 0

\* C22: the store is never handed the Tracked View, so a subscriber reading
\* the notified value raises no signal: none is on record when no user code
\* runs; and a step in which a flush notifies without user code touching a
\* property leaves the token clean, the raw Value in the store, and no
\* checkpoint more than there was.
C22_PayloadUntracked ==
  /\ [](sval.t # "proxy" /\ (frame = NoFrame => hist.sigs = 0))
  /\ [][(notifs' > notifs /\ acc'.op = "none") =>
          /\ ~dirty'
          /\ sval' = value'
          /\ Cardinality(Checkpoints') <= Cardinality(Checkpoints)]_vars

\* The Value is an object with a Tracked View; a checkpoint flushed it, the
\* store holds the raw object and nothing is queued or pending.
C22_Witness ==
  /\ IsObject(value) /\ valueProxy.t = "proxy" /\ sval = value
  /\ hist.sets = 1 /\ hist.by = "ckpt" /\ ~dirty /\ queue = <<>>
  /\ heap[value.v] = 1

====
